---- MODULE Spec2Model ----
(***************************************************************************)
(* WebSocketClient: a pub/sub adapter over one WebSocket.                  *)
(*                                                                         *)
(* The model follows the class in src/unnamed/part_000 (lines 14-96), the  *)
(* version its test-suite (lines 100-231 of that file) exercises.          *)
(* src/src/webSocketClient.ts is an earlier version of the same class: it  *)
(* opens the WebSocket itself, tests "!parsed.event" alone and looks the   *)
(* handler up under parsed.event without String(); its onopen,             *)
(* sendMessage, addEventHandler, removeEventHandler and setLogger are the  *)
(* same.                                                                   *)
(*                                                                         *)
(* JavaScript values are records [t, v]: t the type tag and v the JSON     *)
(* text of the value.  Every handler of the class is one action; what the  *)
(* handler did (log lines, callbacks invoked, strings handed to ws.send,   *)
(* an error thrown) is recorded, in order, in last.trace.                  *)
(***************************************************************************)
EXTENDS Integers, Sequences, FiniteSets, TLC

VARIABLES
  events,           \* this.events: the object used as the handler registry
  readyState,       \* this.ws.readyState
  preOpenMessages,  \* this.preOpenMessages
  onLog,            \* this.onLog
  onOpen,           \* the constructor's onOpen argument
  wsSent,           \* the arguments of every ws.send call so far, in order
  issued,           \* history: the envelope of every sendMessage call that serialized, in call order
  registered,       \* history: per event name, the handler of the latest addEventHandler,
                    \* Removed after a removeEventHandler, None when neither was called
  prior,            \* history: per event name, the handler the latest addEventHandler replaced
  openFired,        \* history: ws.onopen has fired
  openDone,         \* history: ws.onopen has fired and ran to its end
  firstClient,      \* the client that adopted the socket before this one, if any
  wsOwner,          \* the client whose closures ws.onopen and ws.onmessage hold
  onOpenCalls,      \* history: how many times the onOpen callback was invoked
  nRegs,            \* number of addEventHandler / removeEventHandler calls so far
  last              \* the latest operation: its name, arguments and trace

vars == <<events, readyState, preOpenMessages, onLog, onOpen, wsSent, issued,
          registered, prior, openFired, openDone, firstClient, wsOwner, onOpenCalls,
          nRegs, last>>

-----------------------------------------------------------------------------
(* Bounds *)

MaxSends == 2
MaxRegs == 2

-----------------------------------------------------------------------------
(* The callers' functions and inputs *)

None == "none"
Removed == "removed"

\* Event names callers register and frames carry.  "toString" and "__proto__"
\* are also properties every object inherits from Object.prototype.
EventNames == {"a", "toString", "__proto__"}

\* Two more names a caller can register: "5", the string form of the number
\* 5, and "name", a property every function has.
RegistryNames == EventNames \cup {"5", "name"}

\* The event name of the caller's sendMessage calls.  The callbacks that call
\* sendMessage themselves use "2" (cbSend), "3" (sinkSend) and "4" (h2).
SendEvents == {"1"}

\* Event handlers: h1 only records its call; h2 also replies with sendMessage.
Handlers == {"h1", "h2"}

\* onOpen callbacks: cb only records its call; cbSend also calls sendMessage.
OnOpenCallbacks == {"cb", "cbSend"}

\* An onOpen callback that throws an error.
ThrowingCallbacks == {"cbThrow"}

\* Log sinks: sink only records the line; sinkSend also calls sendMessage when
\* it is given the "connection opened" line.
LogSinks == {"sink", "sinkSend"}

-----------------------------------------------------------------------------
(* JavaScript values *)

Undefined == [t |-> "undefined", v |-> "undefined"]
JNull == [t |-> "null", v |-> "null"]
JNum(s) == [t |-> "number", v |-> s]
JStr(s) == [t |-> "string", v |-> s]
JBool(s) == [t |-> "boolean", v |-> s]
JArr(s) == [t |-> "array", v |-> s]
JObj(s) == [t |-> "object", v |-> s]

\* An object that refers to itself: JSON.stringify throws a TypeError on it.
Circular == [t |-> "circular", v |-> "[object Object]"]
Serializable(x) == x.t # "circular"

\* A parsed top-level value with the two properties the class reads.
Top(x, ev, d) == [t |-> x.t, v |-> x.v, event |-> ev, data |-> d]
Prim(x) == Top(x, Undefined, Undefined)

\* !x is false
Truthy(x) ==
  CASE x.t \in {"undefined", "null"} -> FALSE
    [] x.t = "number" -> x.v # "0"
    [] x.t = "string" -> x.v # ""
    [] x.t = "boolean" -> x.v = "true"
    [] OTHER -> TRUE

\* Objects whose own "toString" property is not callable: converting one to
\* a string throws a TypeError.
Uncoercible == {"{\"toString\":1}"}

CanCoerce(x) == ~(x.t = "object" /\ x.v \in Uncoercible)

\* Array.prototype.join of the arrays the frames carry, by their JSON text
ArrayJoin(text) ==
  CASE text = "[]" -> ""
    [] text = "[\"__proto__\"]" -> "__proto__"
    [] OTHER -> text

\* String(x), `${x}`
ToStringJS(x) ==
  CASE x.t = "array" -> ArrayJoin(x.v)
    [] x.t = "object" -> "[object Object]"
    [] OTHER -> x.v

Quote(s) == "\"" \o s \o "\""

\* JSON.stringify(x) of a value
JSONText(x) == IF x.t = "string" THEN Quote(x.v) ELSE x.v

\* JSON.stringify({ event, data })
JSONStringify(event, data) ==
  IF data.t = "undefined"
  THEN "{\"event\":" \o Quote(event) \o "}"
  ELSE "{\"event\":" \o Quote(event) \o ",\"data\":" \o JSONText(data) \o "}"

-----------------------------------------------------------------------------
(* Inbound frames: message.data and JSON.parse *)

\* The data field of the well-formed frames.
FrameData == {JStr("blah"), JObj("{\"favoriteColor\":\"green or milky tan\"}")}

\* Frames the sender built with JSON.stringify({ event, data }).
EnvelopeFrames == {JSONStringify(e, d) : e \in EventNames, d \in FrameData}

\* Payloads that are not JSON text.
NonJSONFrames == {"I'm not even an object!"}

\* JSON text that is not an envelope.
InvalidFrames ==
  {"null", "0", "5", "\"x\"", "true", "[]", "{}",
   "{\"surprise\":\"x\"}", "{\"toString\":1}",
   "{\"event\":null}", "{\"event\":\"\"}", "{\"event\":0}", "{\"event\":false}"}

Frames == EnvelopeFrames \cup NonJSONFrames \cup InvalidFrames

\* Envelopes whose event is truthy and not a string: a number, a boolean, an array.
CoercedEvents == {JNum("5"), JBool("true"), JArr("[\"__proto__\"]")}
CoercedFrame(ev) == "{\"event\":" \o ev.v \o ",\"data\":\"blah\"}"
CoercedFrames == {CoercedFrame(ev) : ev \in CoercedEvents}
CoercedEventOf(raw) == CHOOSE ev \in CoercedEvents : CoercedFrame(ev) = raw

\* Envelopes for the names of the registry that Frames does not have.
RegistryFrames ==
  CoercedFrames \cup {JSONStringify(e, JStr("blah")) : e \in RegistryNames \ {"a", "toString"}}

EnvelopeOf(raw) ==
  CHOOSE p \in RegistryNames \X FrameData : JSONStringify(p[1], p[2]) = raw

\* JSON.parse(raw): ok is FALSE when it throws a SyntaxError.
JSONParse(raw) ==
  LET Ok(x) == [ok |-> TRUE, val |-> x]
      Obj(ev) == Ok(Top(JObj(raw), ev, Undefined))
  IN CASE raw = "null" -> Ok(Prim(JNull))
       [] raw \in {"0", "5"} -> Ok(Prim(JNum(raw)))
       [] raw = "\"\"" -> Ok(Prim(JStr("")))
       [] raw = "\"x\"" -> Ok(Prim(JStr("x")))
       [] raw \in {"true", "false"} -> Ok(Prim(JBool(raw)))
       [] raw = "[]" -> Ok(Prim(JArr(raw)))
       [] raw \in {"{}", "{\"surprise\":\"x\"}", "{\"toString\":1}"} -> Obj(Undefined)
       [] raw = "{\"event\":null}" -> Obj(JNull)
       [] raw = "{\"event\":\"\"}" -> Obj(JStr(""))
       [] raw = "{\"event\":0}" -> Obj(JNum("0"))
       [] raw = "{\"event\":false}" -> Obj(JBool("false"))
       [] raw \in EnvelopeFrames \cup (RegistryFrames \ CoercedFrames) ->
            Ok(Top(JObj(raw), JStr(EnvelopeOf(raw)[1]), EnvelopeOf(raw)[2]))
       [] raw \in CoercedFrames -> Ok(Top(JObj(raw), CoercedEventOf(raw), JStr("blah")))
       [] OTHER -> [ok |-> FALSE, val |-> Prim(Undefined)]

-----------------------------------------------------------------------------
(* this.events: a plain object, so a property read falls back on its       *)
(* prototype chain, and "__proto__" is the accessor of that prototype.     *)

ObjectPrototype == "Object.prototype"

NewEvents == [own |-> [e \in RegistryNames |-> None], proto |-> ObjectPrototype]

\* Own properties of every function that are not writable.
ReadOnlyOfFunction == {"name"}

\* this.events[event] = callback in strict mode throws a TypeError when event
\* is not an own property and the prototype chain has it as a read-only one.
CanSet(ev, event) ==
  ~(event \in ReadOnlyOfFunction /\ ev.proto # ObjectPrototype /\ ev.own[event] = None)

\* an assignment that keeps the handler an event name already has
SetPropertyKeepFirst(ev, event, callback) ==
  IF event = "__proto__"
  THEN IF ev.proto = "Object.prototype" THEN [ev EXCEPT !.proto = callback] ELSE ev
  ELSE IF ev.own[event] = None THEN [ev EXCEPT !.own[event] = callback] ELSE ev

\* this.events[event] = callback
SetProperty(ev, event, callback) ==
  IF event = "__proto__"
  THEN [ev EXCEPT !.proto = callback]
  ELSE [ev EXCEPT !.own[event] = callback]

\* delete this.events[event]: removes an own property only
DeleteProperty(ev, event) ==
  IF event \in DOMAIN ev.own /\ event # "__proto__"
  THEN [ev EXCEPT !.own[event] = None]
  ELSE ev

\* this.events[key]
GetProperty(ev, key) ==
  LET Val(k, id) == [kind |-> k, id |-> id]
  IN CASE key \in DOMAIN ev.own /\ ev.own[key] # None -> Val("handler", ev.own[key])
       [] key = "__proto__" ->
            IF ev.proto = ObjectPrototype
            THEN Val("object", ObjectPrototype)
            ELSE Val("handler", ev.proto)
       [] key = "toString" ->
            IF ev.proto = ObjectPrototype
            THEN Val("builtin", "Object.prototype.toString")
            ELSE Val("builtin", "Function.prototype.toString")
       [] key = "name" ->
            IF ev.proto = ObjectPrototype
            THEN Val("undefined", "undefined")
            ELSE Val("string", ev.proto)
       [] OTHER -> Val("undefined", "undefined")

-----------------------------------------------------------------------------
(* The handlers, as functions of an execution context c: the fields of the *)
(* client and of its transport, with the trace of the running operation.   *)

Ctx ==
  [events |-> events, readyState |-> readyState, pre |-> preOpenMessages,
   onLog |-> onLog, onOpen |-> onOpen, sent |-> wsSent, issued |-> issued,
   opens |-> onOpenCalls, trace |-> <<>>, threw |-> FALSE]

Emit(c, k, a, b) == [c EXCEPT !.trace = Append(@, [k |-> k, a |-> a, b |-> b])]

\* An uncaught error leaves the running handler.
Throw(c, what) == [Emit(c, "throw", what, "") EXCEPT !.threw = TRUE]

\* The data of the next sendMessage call: a fresh number, so that no two
\* envelopes of a run are the same string.
NextData(c) == JNum(ToString(Len(c.issued) + 1))

\* this.ws.send(msg)
wsSend(c, msg) == [Emit(c, "send", "", msg) EXCEPT !.sent = Append(@, msg)]

RECURSIVE sendMessage(_, _, _)

\* if (this.onLog) this.onLog(line), with the sink's own body
onLogCall(c, kind, line) ==
  IF c.onLog = None THEN c
  ELSE LET c1 == Emit(c, "log", kind, line)
       IN IF c.onLog = "sinkSend" /\ kind = "opened"
          THEN sendMessage(c1, "3", NextData(c1))
          ELSE c1

\* sendMessage with the test "readyState !== WebSocket.OPEN" in place of
\* "readyState === WebSocket.CONNECTING"
sendMessageUnlessOpen(c, event, data) ==
  IF ~Serializable(data) THEN Throw(c, "TypeError: Converting circular structure to JSON") ELSE
  LET msg == JSONStringify(event, data)
      c1 == [Emit(c, "call", c.readyState, msg) EXCEPT !.issued = Append(@, msg)]
      c2 == onLogCall(c1, "sending", "Sending: " \o msg)
      c3 == IF c2.readyState # "OPEN"
            THEN [Emit(c2, "push", "", msg) EXCEPT !.pre = Append(@, msg)]
            ELSE wsSend(c2, msg)
  IN Emit(c3, "return", "", msg)

\* sendMessage with the else of its test left out: what is pushed is sent too
sendMessageNoElse(c, event, data) ==
  IF ~Serializable(data) THEN Throw(c, "TypeError: Converting circular structure to JSON") ELSE
  LET msg == JSONStringify(event, data)
      c1 == [Emit(c, "call", c.readyState, msg) EXCEPT !.issued = Append(@, msg)]
      c2 == onLogCall(c1, "sending", "Sending: " \o msg)
      c3 == IF c2.readyState = "CONNECTING"
            THEN [Emit(c2, "push", "", msg) EXCEPT !.pre = Append(@, msg)]
            ELSE c2
  IN Emit(wsSend(c3, msg), "return", "", msg)

\* sendMessage that tells the sink of the call before it serializes
sendMessageLogFirst(c, event, data) ==
  LET c0 == onLogCall(c, "sending", "Sending: " \o event)
  IN IF ~Serializable(data)
     THEN Throw(c0, "TypeError: Converting circular structure to JSON")
     ELSE LET msg == JSONStringify(event, data)
              c1 == [Emit(c0, "call", c.readyState, msg) EXCEPT !.issued = Append(@, msg)]
              c3 == IF c1.readyState = "CONNECTING"
                    THEN [Emit(c1, "push", "", msg) EXCEPT !.pre = Append(@, msg)]
                    ELSE wsSend(c1, msg)
          IN Emit(c3, "return", "", msg)

\* JSON.stringify throws before anything else is done
sendMessage(c, event, data) ==
  IF ~Serializable(data) THEN Throw(c, "TypeError: Converting circular structure to JSON") ELSE
  LET msg == JSONStringify(event, data)
      c1 == [Emit(c, "call", c.readyState, msg) EXCEPT !.issued = Append(@, msg)]
      c2 == onLogCall(c1, "sending", "Sending: " \o msg)
      c3 == IF c2.readyState = "CONNECTING"
            THEN [Emit(c2, "push", "", msg) EXCEPT !.pre = Append(@, msg)]
            ELSE wsSend(c2, msg)
  IN Emit(c3, "return", "", msg)

\* onOpen invoked with no test of the transition having run it already:
\* the callback runs a second time
onOpenCallTwice(c) ==
  IF c.onOpen = None THEN c
  ELSE LET c1 == [Emit(c, "onOpen", c.onOpen, "") EXCEPT !.opens = @ + 1]
           c2 == IF c.onOpen = "cbSend" THEN sendMessage(c1, "2", NextData(c1)) ELSE c1
       IN [Emit(c2, "onOpen", c.onOpen, "") EXCEPT !.opens = @ + 1]

\* if (onOpen) onOpen(), with the callback's own body
onOpenCall(c) ==
  IF c.onOpen = None THEN c
  ELSE LET c1 == [Emit(c, "onOpen", c.onOpen, "") EXCEPT !.opens = @ + 1]
       IN CASE c.onOpen = "cbSend" -> sendMessage(c1, "2", NextData(c1))
            [] c.onOpen = "cbThrow" -> Throw(c1, "Error thrown by onOpen")
            [] OTHER -> c1

RECURSIVE DrainLoopLifo(_)
\* the drain loop taking the newest message first (pop() for shift())
DrainLoopLifo(c) ==
  IF c.pre = <<>> THEN c
  ELSE LET msg == c.pre[Len(c.pre)]
           c1 == [c EXCEPT !.pre = SubSeq(@, 1, Len(@) - 1)]
       IN IF msg = "" THEN c1 ELSE DrainLoopLifo(wsSend(c1, msg))

RECURSIVE DrainLoopLogged(_)
\* the drain loop telling the sink of every message it flushes
DrainLoopLogged(c) ==
  IF c.pre = <<>> THEN c
  ELSE LET msg == Head(c.pre)
           c1 == [c EXCEPT !.pre = Tail(@)]
       IN IF msg = "" THEN c1
          ELSE DrainLoopLogged(wsSend(onLogCall(c1, "sending", "Sending: " \o msg), msg))

\* the drain with if (msg) for while (msg): one message is flushed
DrainLoopOnce(c) ==
  IF c.pre = <<>> THEN c
  ELSE LET msg == Head(c.pre)
           c1 == [c EXCEPT !.pre = Tail(@)]
       IN IF msg = "" THEN c1 ELSE wsSend(c1, msg)

RECURSIVE DrainLoop(_)
\* let msg = shift(); while (msg) { this.ws.send(msg); msg = shift(); }
DrainLoop(c) ==
  IF c.pre = <<>> THEN c
  ELSE LET msg == Head(c.pre)
           c1 == [c EXCEPT !.pre = Tail(@)]
       IN IF msg = "" THEN c1 ELSE DrainLoop(wsSend(c1, msg))

\* ws.onopen flushing the buffered messages before it calls onOpen
onopenFlushFirst(c) ==
  onOpenCall(DrainLoop(onLogCall(c, "opened", "WebSocket connection opened at 127.0.0.0")))

\* ws.onopen with the drain loop in a finally block: it runs whether onOpen
\* throws or returns
onopenDrainAlways(c) ==
  DrainLoop(onOpenCall(onLogCall(c, "opened", "WebSocket connection opened at 127.0.0.0")))

\* this.ws.onopen: an error thrown by onOpen leaves it before the drain loop
onopen(c) ==
  LET c1 == onOpenCall(onLogCall(c, "opened", "WebSocket connection opened at 127.0.0.0"))
  IN IF c1.threw THEN c1 ELSE DrainLoop(c1)

\* this.events[parsedEvent](parsed.data), with the callee's own body
CallProperty(c, f, data) ==
  CASE f.kind = "handler" ->
         LET c1 == Emit(c, "handler", f.id, JSONText(data))
         IN IF f.id = "h2" THEN sendMessage(c1, "4", NextData(c1)) ELSE c1
    [] f.kind = "builtin" ->
         LET c1 == Emit(c, "builtin", f.id, JSONText(data))
         IN IF f.id = "Function.prototype.toString"
            THEN Throw(c1, "TypeError: not a function object")
            ELSE c1
    [] OTHER -> Throw(c, "TypeError: not a function")

\* the handler called with the whole parsed frame, not its data field
DispatchWholeFrame(c, parsedEvent, data) ==
  LET f == GetProperty(c.events, parsedEvent)
  IN IF f.kind = "undefined" THEN c
     ELSE CallProperty(c, f, JObj(JSONStringify(parsedEvent, data)))

\* if (this.events[parsedEvent]) this.events[parsedEvent](parsed.data)
Dispatch(c, parsedEvent, data) ==
  LET f == GetProperty(c.events, parsedEvent)
  IN IF f.kind = "undefined" THEN c ELSE CallProperty(c, f, data)

\* this.ws.onmessage
onmessage(c, raw) ==
  LET p == JSONParse(raw)
      parsed == p.val
  IN IF ~p.ok
     THEN onLogCall(c, "nonjson", "Non-JSON message received: " \o raw)
     ELSE IF ~Truthy(parsed) \/ ~Truthy(parsed.event)
     THEN IF c.onLog = None THEN c
          ELSE IF ~CanCoerce(parsed)
          THEN Throw(c, "TypeError: cannot convert object to primitive value")
          ELSE onLogCall(c, "invalid", "Invalid message received: " \o ToStringJS(parsed))
     ELSE IF ~CanCoerce(parsed.event)
     THEN Throw(c, "TypeError: cannot convert object to primitive value")
     ELSE LET parsedEvent == ToStringJS(parsed.event)
              c1 == onLogCall(c, "event",
                      "Event " \o parsedEvent \o " received: " \o JSONText(parsed.data))
          IN Dispatch(c1, parsedEvent, parsed.data)

-----------------------------------------------------------------------------
(* The state machine *)

Op(op, a, b, c) == [op |-> op, a |-> a, b |-> b, trace |-> c.trace, threw |-> c.threw]

\* The fields a handler run in context c leaves behind.
Commit(c) ==
  /\ events' = c.events
  /\ preOpenMessages' = c.pre
  /\ wsSent' = c.sent
  /\ issued' = c.issued
  /\ onOpenCalls' = c.opens

\* A client that was constructed on the socket before this one.
NoFirstClient ==
  [exists |-> FALSE, events |-> NewEvents, pre |-> <<>>, onLog |-> None, onOpen |-> None,
   registered |-> [e \in RegistryNames |-> None]]

\* The context of the client whose closures the socket holds.
OwnerCtx ==
  IF wsOwner = "this" THEN Ctx
  ELSE [Ctx EXCEPT !.events = firstClient.events, !.pre = firstClient.pre,
                   !.onLog = firstClient.onLog, !.onOpen = firstClient.onOpen]

\* The fields a callback of the socket leaves behind, in the client it belongs to.
CommitOwner(c) ==
  IF wsOwner = "this"
  THEN Commit(c) /\ firstClient' = firstClient
  ELSE /\ firstClient' = [firstClient EXCEPT !.events = c.events, !.pre = c.pre]
       /\ wsSent' = c.sent
       /\ issued' = c.issued
       /\ onOpenCalls' = c.opens
       /\ UNCHANGED <<events, preOpenMessages>>

\* new WebSocketClient(webSocket, onOpen?) on a socket that is still connecting
Constructed(callbacks) ==
  /\ events = NewEvents
  /\ readyState = "CONNECTING"
  /\ preOpenMessages = <<>>
  /\ onLog = None
  /\ onOpen \in callbacks
  /\ wsSent = <<>>
  /\ issued = <<>>
  /\ registered = [e \in RegistryNames |-> None]
  /\ prior = [e \in RegistryNames |-> None]
  /\ openFired = FALSE
  /\ openDone = FALSE
  /\ firstClient = NoFirstClient
  /\ wsOwner = "this"
  /\ onOpenCalls = 0
  /\ nRegs = 0
  /\ last = Op("constructor", "", "", Ctx)

\* The client of a caller whose onOpen, when there is one, returns.
Init == Constructed({None} \cup OnOpenCallbacks)

\* webSocketClient.sendMessage(event, data)
SendMessage ==
  /\ Len(issued) < MaxSends
  /\ \E event \in SendEvents :
       LET c == sendMessage(Ctx, event, NextData(Ctx))
       IN /\ Commit(c)
          /\ last' = Op("sendMessage", event, JSONStringify(event, NextData(Ctx)), c)
  /\ UNCHANGED <<readyState, onLog, onOpen, registered, prior, openFired, openDone,
                 firstClient, wsOwner, nRegs>>

\* this.events[event] = callback, which strict mode lets throw
addEventHandler(event, callback) ==
  IF CanSet(events, event)
  THEN /\ events' = SetProperty(events, event, callback)
       /\ registered' = [registered EXCEPT ![event] = callback]
       /\ prior' = [prior EXCEPT ![event] =
                     IF registered[event] \in Handlers THEN registered[event] ELSE None]
       /\ last' = Op("addEventHandler", event, callback, Ctx)
  ELSE /\ UNCHANGED <<events, registered, prior>>
       /\ last' = Op("addEventHandler", event, callback,
                     Throw(Ctx, "TypeError: Cannot assign to read only property"))

\* webSocketClient.addEventHandler(event, callback)
AddEventHandler ==
  /\ nRegs < MaxRegs
  /\ \E event \in EventNames, callback \in Handlers : addEventHandler(event, callback)
  /\ nRegs' = nRegs + 1
  /\ UNCHANGED <<readyState, preOpenMessages, onLog, onOpen, wsSent, issued,
                 openFired, openDone, firstClient, wsOwner, onOpenCalls>>

\* delete this.events[event]
removeEventHandler(event) ==
  /\ events' = DeleteProperty(events, event)
  /\ registered' = [registered EXCEPT ![event] = Removed]
  /\ prior' = [prior EXCEPT ![event] = None]
  /\ last' = Op("removeEventHandler", event, "", Ctx)

\* webSocketClient.removeEventHandler(event)
RemoveEventHandler ==
  /\ nRegs < MaxRegs
  /\ \E event \in EventNames : removeEventHandler(event)
  /\ nRegs' = nRegs + 1
  /\ UNCHANGED <<readyState, preOpenMessages, onLog, onOpen, wsSent, issued,
                 openFired, openDone, firstClient, wsOwner, onOpenCalls>>

\* webSocketClient.setLogger(handler)
SetLogger ==
  /\ \E handler \in LogSinks :
       /\ onLog' = handler
       /\ last' = Op("setLogger", handler, "", Ctx)
  /\ UNCHANGED <<events, readyState, preOpenMessages, onOpen, wsSent, issued,
                 registered, prior, openFired, openDone, firstClient, wsOwner,
                 onOpenCalls, nRegs>>

\* The transport opens: readyState becomes OPEN and ws.onopen fires, once.
TransportOpen ==
  /\ readyState = "CONNECTING"
  /\ readyState' = "OPEN"
  /\ openFired' = TRUE
  /\ LET c == onopen([OwnerCtx EXCEPT !.readyState = "OPEN"])
     IN /\ CommitOwner(c)
        /\ openDone' = ~c.threw
        /\ last' = Op("open", "", "", c)
  /\ UNCHANGED <<onLog, onOpen, registered, prior, wsOwner, nRegs>>

\* webSocket.onmessage({ data: raw })
receive(raw) ==
  LET c == onmessage(OwnerCtx, raw)
  IN /\ CommitOwner(c)
     /\ last' = Op("message", raw, "", c)

\* The transport delivers a frame: ws.onmessage fires.
TransportMessage ==
  /\ readyState = "OPEN"
  /\ Len(issued) < MaxSends
  /\ \E raw \in Frames : receive(raw)
  /\ UNCHANGED <<readyState, onLog, onOpen, registered, prior, openFired, openDone,
                 wsOwner, nRegs>>

\* The transport closes, or fails to connect: no callback of the client fires.
TransportClose ==
  /\ readyState \in {"CONNECTING", "OPEN"}
  /\ readyState' = "CLOSED"
  /\ last' = Op("close", "", "", Ctx)
  /\ UNCHANGED <<events, preOpenMessages, onLog, onOpen, wsSent, issued, registered,
                 prior, openFired, openDone, firstClient, wsOwner, onOpenCalls, nRegs>>

Next ==
  \/ SendMessage
  \/ AddEventHandler
  \/ RemoveEventHandler
  \/ SetLogger
  \/ TransportOpen
  \/ TransportMessage
  \/ TransportClose

Spec == Init /\ [][Next]_vars

-----------------------------------------------------------------------------
(* Two clients on one socket *)

\* The onOpen callback given to the second client.
SecondOnOpen == {"cb2"}

\* this.ws.onopen = ..., this.ws.onmessage = ... with the closures a client
\* constructed earlier had put there left in place
InstallCallbacksIfUnset(owner) == IF owner = "this" THEN "first" ELSE owner

\* this.ws.onopen = ..., this.ws.onmessage = ... in the constructor: the
\* socket holds the closures of the client under construction, whoever's
\* it held before.
InstallCallbacks(owner) == "this"

\* new WebSocketClient(webSocket, onOpen?) on the socket that a client holds
\* already and that is still connecting: from here on "this" is the new client.
NewClient ==
  /\ ~firstClient.exists
  /\ readyState = "CONNECTING"
  /\ firstClient' = [exists |-> TRUE, events |-> events, pre |-> preOpenMessages,
                     onLog |-> onLog, onOpen |-> onOpen, registered |-> registered]
  /\ events' = NewEvents
  /\ preOpenMessages' = <<>>
  /\ onLog' = None
  /\ onOpen' \in {None} \cup SecondOnOpen
  /\ wsOwner' = InstallCallbacks(wsOwner)
  /\ registered' = [e \in RegistryNames |-> None]
  /\ prior' = [e \in RegistryNames |-> None]
  /\ onOpenCalls' = 0
  /\ last' = Op("constructor", "second", "", Ctx)
  /\ UNCHANGED <<readyState, wsSent, issued, openFired, openDone, nRegs>>

\* sendMessage(event, data) of the first client, after the second was constructed
FirstSendMessage ==
  /\ firstClient.exists
  /\ Len(issued) < MaxSends
  /\ \E event \in SendEvents :
       LET c0 == [Ctx EXCEPT !.events = firstClient.events, !.pre = firstClient.pre,
                            !.onLog = firstClient.onLog, !.onOpen = firstClient.onOpen]
           c == sendMessage(c0, event, NextData(c0))
       IN /\ firstClient' = [firstClient EXCEPT !.pre = c.pre]
          /\ wsSent' = c.sent
          /\ issued' = c.issued
          /\ last' = Op("first.sendMessage", event, JSONStringify(event, NextData(c0)), c)
  /\ UNCHANGED <<events, readyState, preOpenMessages, onLog, onOpen, registered, prior,
                 openFired, openDone, wsOwner, onOpenCalls, nRegs>>

\* The transport delivers an envelope for one of the event names.
TransportEnvelope ==
  /\ readyState = "OPEN"
  /\ Len(issued) < MaxSends
  /\ \E raw \in EnvelopeFrames : receive(raw)
  /\ UNCHANGED <<readyState, onLog, onOpen, registered, prior, openFired, openDone,
                 wsOwner, nRegs>>

\* The two clients while the socket connects, opens and delivers envelopes.
NextShared ==
  \/ SendMessage
  \/ AddEventHandler
  \/ TransportOpen
  \/ TransportEnvelope
  \/ NewClient
  \/ FirstSendMessage

SpecShared == Init /\ [][NextShared]_vars

-----------------------------------------------------------------------------
(* The registry under every name of RegistryNames *)

\* webSocketClient.addEventHandler(event, callback), any name
AddEventHandlerAny ==
  /\ nRegs < MaxRegs
  /\ \E event \in RegistryNames, callback \in Handlers : addEventHandler(event, callback)
  /\ nRegs' = nRegs + 1
  /\ UNCHANGED <<readyState, preOpenMessages, onLog, onOpen, wsSent, issued,
                 openFired, openDone, firstClient, wsOwner, onOpenCalls>>

\* webSocketClient.removeEventHandler(event), any name
RemoveEventHandlerAny ==
  /\ nRegs < MaxRegs
  /\ \E event \in RegistryNames : removeEventHandler(event)
  /\ nRegs' = nRegs + 1
  /\ UNCHANGED <<readyState, preOpenMessages, onLog, onOpen, wsSent, issued,
                 openFired, openDone, firstClient, wsOwner, onOpenCalls>>

\* The transport delivers an envelope for one of these names, or one whose
\* event is not a string.
TransportMessageAny ==
  /\ readyState = "OPEN"
  /\ Len(issued) < MaxSends
  /\ \E raw \in RegistryFrames : receive(raw)
  /\ UNCHANGED <<readyState, onLog, onOpen, registered, prior, openFired, openDone,
                 wsOwner, nRegs>>

NextRegistry ==
  \/ AddEventHandlerAny
  \/ RemoveEventHandlerAny
  \/ SetLogger
  \/ SendMessage
  \/ TransportOpen
  \/ TransportMessageAny

SpecRegistry == Init /\ [][NextRegistry]_vars

-----------------------------------------------------------------------------
(* The client of a caller whose onOpen throws and whose data may not be    *)
(* serializable                                                            *)

InitFaults == Constructed(ThrowingCallbacks)

\* webSocketClient.sendMessage(event, data), data serializable or not
SendMessageAny ==
  /\ Len(issued) < MaxSends
  /\ \E event \in SendEvents, data \in {NextData(Ctx), Circular} :
       LET c == sendMessage(Ctx, event, data)
       IN /\ Commit(c)
          /\ last' = Op("sendMessage", event,
                        IF Serializable(data) THEN JSONStringify(event, data) ELSE "", c)
  /\ UNCHANGED <<readyState, onLog, onOpen, registered, prior, openFired, openDone,
                 firstClient, wsOwner, nRegs>>

NextFaults ==
  \/ SendMessageAny
  \/ AddEventHandler
  \/ RemoveEventHandler
  \/ SetLogger
  \/ TransportOpen
  \/ TransportMessage
  \/ TransportClose

SpecFaults == InitFaults /\ [][NextFaults]_vars

-----------------------------------------------------------------------------
(* Reading a trace *)

Select(tr, k) == SelectSeq(tr, LAMBDA ev : ev.k = k)

\* The strings of the trace's events of kind k, in order.
Texts(tr, k) == [i \in 1..Len(Select(tr, k)) |-> Select(tr, k)[i].b]

\* The index of the first event of kind k after position i (0 when there is none).
NextOf(tr, k, i) ==
  IF \E j \in (i + 1)..Len(tr) : tr[j].k = k
  THEN CHOOSE j \in (i + 1)..Len(tr) :
         /\ tr[j].k = k
         /\ \A m \in (i + 1)..(j - 1) : tr[m].k # k
  ELSE 0

\* The position of the first event of kind k (0 when there is none).
FirstOf(tr, k) == NextOf(tr, k, 0)

RECURSIVE IsSubsequence(_, _)
\* s is t with some elements left out.
IsSubsequence(s, t) ==
  IF s = <<>> THEN TRUE
  ELSE IF t = <<>> THEN FALSE
  ELSE IF Head(s) = Head(t) THEN IsSubsequence(Tail(s), Tail(t))
  ELSE IsSubsequence(s, Tail(t))

Range(s) == {s[i] : i \in DOMAIN s}

NoDuplicates(s) == \A i, j \in DOMAIN s : s[i] = s[j] => i = j

-----------------------------------------------------------------------------
(* C1: while the transport is connecting, sendMessage calls reach ws.send  *)
(* not at all; when the transport opens, ws.send receives every buffered   *)
(* envelope once, in the order of the sendMessage calls, and nothing else  *)
(* unless a callback of the transition calls sendMessage itself.           *)

C1_Buffering ==
  /\ [](readyState = "CONNECTING" => wsSent = <<>> /\ preOpenMessages = issued)
  /\ [][last'.op = "open" =>
          /\ preOpenMessages' = <<>>
          /\ SelectSeq(wsSent', LAMBDA m : m \in Range(issued)) = issued
          /\ issued' = issued => wsSent' = issued]_vars

C1_Witness ==
  /\ last.op = "open"
  /\ Len(wsSent) >= 2
  /\ wsSent = issued

(* C2: the strings passed to ws.send appear in the order of the            *)
(* sendMessage calls that produced them, each at most once.                *)

C2_SendOrder == IsSubsequence(wsSent, issued) /\ NoDuplicates(wsSent)

(* C3: every sendMessage call made after the transport has opened has      *)
(* called ws.send exactly once, with its serialized envelope, by the time  *)
(* it returns, and has appended nothing to preOpenMessages.                *)

C3_PassThrough ==
  openFired =>
    \A i \in DOMAIN last.trace :
      last.trace[i].k = "call" =>
        LET j == NextOf(last.trace, "return", i)
            body == SubSeq(last.trace, i + 1, j - 1)
        IN /\ j # 0
           /\ Texts(body, "send") = <<last.trace[i].b>>
           /\ Select(body, "push") = <<>>

C3_Witness ==
  /\ openFired
  /\ last.op = "sendMessage"
  /\ wsSent # <<>>
  /\ wsSent[Len(wsSent)] = last.b

-----------------------------------------------------------------------------
(* The latest operation, when it is an inbound envelope frame *)

IsEnvelope == last.op = "message" /\ last.a \in EnvelopeFrames
FrameEvent == EnvelopeOf(last.a)[1]
FrameDataText == JSONText(EnvelopeOf(last.a)[2])
Invoked == Select(last.trace, "handler")
Invocation(h, text) == [k |-> "handler", a |-> h, b |-> text]

(* C4: an inbound frame whose event has a registered handler invokes that  *)
(* handler exactly once, with the frame's data, and no other handler.      *)

C4_Dispatch ==
  (IsEnvelope /\ registered[FrameEvent] \in Handlers)
    => Invoked = <<Invocation(registered[FrameEvent], FrameDataText)>>

C4_Witness ==
  /\ IsEnvelope
  /\ registered[FrameEvent] \in Handlers
  /\ \E e \in EventNames \ {FrameEvent} : registered[e] \in Handlers \ {registered[FrameEvent]}
  /\ Invoked # <<>>

(* C5: a well-formed inbound frame whose event name has no entry added by  *)
(* addEventHandler invokes no function and raises no error.                *)

C5_UnregisteredDiscarded ==
  (IsEnvelope /\ registered[FrameEvent] = None)
    => /\ Invoked = <<>>
       /\ Select(last.trace, "builtin") = <<>>
       /\ ~last.threw

(* C6: a malformed inbound payload (not JSON, JSON that is no object, an   *)
(* object with no event field or a falsy one, an empty array or object)    *)
(* raises no error and invokes no handler, with or without a log sink.     *)

C6_MalformedSwallowed ==
  (last.op = "message" /\ last.a \in NonJSONFrames \cup InvalidFrames)
    => /\ ~last.threw
       /\ Invoked = <<>>

(* C7: once removeEventHandler(E) was called and addEventHandler(E, ...)   *)
(* was not called again, an inbound frame for E invokes no handler, while  *)
(* a frame for another name still invokes the handler registered for it.   *)

C7_Removal ==
  IsEnvelope =>
    /\ registered[FrameEvent] = Removed => Invoked = <<>>
    /\ (registered[FrameEvent] \in Handlers /\ \E e \in EventNames : registered[e] = Removed)
         => Invoked = <<Invocation(registered[FrameEvent], FrameDataText)>>

(* C8: after addEventHandler(E, h1) and then addEventHandler(E, h2), an    *)
(* inbound frame for E invokes h2 exactly once and h1 not at all.          *)

C8_LastRegistrationWins ==
  (IsEnvelope /\ prior[FrameEvent] \in Handlers)
    => /\ registered[FrameEvent] \in Handlers
       /\ Invoked = <<Invocation(registered[FrameEvent], FrameDataText)>>
       /\ prior[FrameEvent] # registered[FrameEvent]
            => \A i \in DOMAIN last.trace : last.trace[i].a # prior[FrameEvent]

C8_Witness ==
  /\ IsEnvelope
  /\ prior[FrameEvent] \in Handlers
  /\ prior[FrameEvent] # registered[FrameEvent]
  /\ Invoked # <<>>

(* C9: the onOpen callback is not invoked before the transport opens, is   *)
(* invoked exactly once when it opens, and by no other operation.          *)

C9_OnOpenOnce ==
  /\ ~openFired => onOpenCalls = 0
  /\ openFired => onOpenCalls = (IF onOpen = None THEN 0 ELSE 1)
  /\ Select(last.trace, "onOpen") # <<>> => last.op = "open"

C9_Witness ==
  /\ openFired
  /\ onOpenCalls = 1
  /\ last.op = "message"
  /\ wsSent # <<>>

(* C10: within the transition run when the transport opens, the            *)
(* "connection opened" line is logged (when a sink is set), then onOpen is *)
(* invoked, then the buffered messages are passed to ws.send: none of them *)
(* has been passed when onOpen is invoked.                                 *)

C10_OpenOrder ==
  [][last'.op = "open" =>
       LET tr == last'.trace
           LogAt == {i \in DOMAIN tr : tr[i].k = "log" /\ tr[i].a = "opened"}
           OnOpenAt == {i \in DOMAIN tr : tr[i].k = "onOpen"}
           FlushAt == {i \in DOMAIN tr : tr[i].k = "send" /\ tr[i].b \in Range(preOpenMessages)}
       IN /\ Cardinality(LogAt) = (IF onLog = None THEN 0 ELSE 1)
          /\ Cardinality(OnOpenAt) = (IF onOpen = None THEN 0 ELSE 1)
          /\ Cardinality(FlushAt) = Len(preOpenMessages)
          /\ \A i \in LogAt, j \in OnOpenAt \cup FlushAt : i < j
          /\ \A i \in OnOpenAt, j \in FlushAt : i < j]_vars

C10_Witness ==
  /\ last.op = "open"
  /\ \E i, j, m \in DOMAIN last.trace :
       /\ i < j /\ j < m
       /\ last.trace[i].k = "log"
       /\ last.trace[j].k = "onOpen"
       /\ last.trace[m].k = "send"
       /\ \A n \in DOMAIN last.trace : last.trace[n].k = "call" => last.trace[n].b # last.trace[m].b

-----------------------------------------------------------------------------
(* C11: once ws.onopen has run to its end, preOpenMessages is empty and    *)
(* stays empty whatever is called afterwards; a step that makes the queue  *)
(* longer is taken only while readyState is CONNECTING.                    *)

C11_QueueStaysEmpty ==
  /\ [](openDone => preOpenMessages = <<>>)
  /\ [][Len(preOpenMessages') > Len(preOpenMessages) => readyState = "CONNECTING"]_vars

\* sendMessage after a transition that flushed a buffered message
C11_Witness ==
  /\ openDone
  /\ last.op = "sendMessage"
  /\ Len(wsSent) = 2
  /\ \E i \in 1..Len(last.trace) : last.trace[i].k = "send"
  /\ preOpenMessages = <<>>

-----------------------------------------------------------------------------
(* C12: a sendMessage call whose data JSON.stringify cannot serialize      *)
(* throws to its caller and does nothing else: no line goes to the log     *)
(* sink, nothing is pushed on preOpenMessages, ws.send is not called, and  *)
(* the client and the transport are in the state they were in before the   *)
(* call, so that a later call finds what it would have found without it.   *)

C12_SerializationFailure ==
  [][(last'.op = "sendMessage" /\ last'.b = "") =>
       /\ last'.threw
       /\ Len(last'.trace) = 1
       /\ last'.trace[1].k = "throw"
       /\ UNCHANGED <<events, readyState, preOpenMessages, onLog, onOpen, wsSent, issued>>
    ]_vars

\* a failed call on a client that has a sink set and a message in the queue
C12_Witness ==
  /\ last.op = "sendMessage"
  /\ last.threw
  /\ onLog # None
  /\ preOpenMessages # <<>>

-----------------------------------------------------------------------------
(* C13: a sendMessage call that has serialized its envelope does one of    *)
(* two things, by the readyState it reads: when that is CONNECTING it      *)
(* pushes the string on preOpenMessages and does not call ws.send; when it *)
(* is anything else it calls ws.send once with the string and pushes       *)
(* nothing.  This holds of the calls the program makes and of the calls    *)
(* made from inside the client's callbacks.                                *)

C13_PushOrSend ==
  /\ [](\A i \in DOMAIN last.trace :
         last.trace[i].k = "call" =>
           LET j == NextOf(last.trace, "return", i)
               inside == SubSeq(last.trace, i + 1, j - 1)
               msg == last.trace[i].b
           IN /\ j # 0
              /\ IF last.trace[i].a = "CONNECTING"
                 THEN Texts(inside, "push") = <<msg>> /\ Texts(inside, "send") = <<>>
                 ELSE Texts(inside, "send") = <<msg>> /\ Texts(inside, "push") = <<>>)
  /\ [][(last'.op = "sendMessage" /\ ~last'.threw) =>
          IF readyState = "CONNECTING"
          THEN preOpenMessages' = Append(preOpenMessages, last'.b) /\ wsSent' = wsSent
          ELSE wsSent' = Append(wsSent, last'.b) /\ preOpenMessages' = preOpenMessages
       ]_vars

\* one call found the transport connecting, the next one found it closed
C13_Witness ==
  /\ last.op = "sendMessage"
  /\ ~last.threw
  /\ readyState = "CLOSED"
  /\ Len(preOpenMessages) = 1
  /\ Len(wsSent) = 1

-----------------------------------------------------------------------------
(* C14: after a second client was constructed on the socket of a first     *)
(* one, the opening of the socket and every frame run the second client's  *)
(* closures only: the first client's onOpen is not invoked, the opening    *)
(* invokes the second client's; a frame invokes no handler unless the      *)
(* second client registered one for its event, whatever the first client   *)
(* registered; the opening and the frames leave the first client as it     *)
(* was, so none of the messages it buffered ever reaches ws.send.          *)

C14_SecondClientOnly ==
  /\ [](firstClient.exists =>
         /\ last.op = "open" =>
              /\ \A i \in DOMAIN last.trace :
                   last.trace[i].k = "onOpen" => last.trace[i].a \in SecondOnOpen
              /\ onOpen \in SecondOnOpen => Len(Select(last.trace, "onOpen")) = 1
         /\ (IsEnvelope /\ registered[FrameEvent] = None) => Invoked = <<>>
         /\ Range(firstClient.pre) \cap Range(wsSent) = {})
  /\ [][(firstClient.exists /\ last'.op \in {"open", "message"})
          => firstClient' = firstClient]_vars

\* the socket has opened and delivered a frame for an event of the first
\* client, which has an onOpen callback and a buffered message
C14_Witness ==
  /\ firstClient.exists
  /\ firstClient.onOpen # None
  /\ firstClient.pre # <<>>
  /\ openFired
  /\ onOpen \in SecondOnOpen
  /\ onOpenCalls = 1
  /\ wsSent = <<>>
  /\ IsEnvelope
  /\ firstClient.registered[FrameEvent] \in Handlers
  /\ registered[FrameEvent] = None

-----------------------------------------------------------------------------
(* C15: when onOpen throws, ws.onopen ends before its drain loop: no       *)
(* buffered message is passed to ws.send and preOpenMessages is left as it *)
(* was; from then on no step of the client changes preOpenMessages or      *)
(* passes one of its messages to ws.send.                                  *)

-----------------------------------------------------------------------------
(* C16: with a log sink set, a sendMessage call that has serialized its    *)
(* envelope gives the sink the one line "Sending: <envelope>", as its      *)
(* first step, before the push or the ws.send; the drain loop of ws.onopen *)
(* gives the sink no line for the messages it flushes.  With no sink set   *)
(* the call gives no line and pushes or sends as it does with a sink.      *)

C16_SendingLine ==
  /\ \A i \in DOMAIN last.trace :
       last.trace[i].k = "call" =>
         LET j == NextOf(last.trace, "return", i)
             inside == SubSeq(last.trace, i + 1, j - 1)
             msg == last.trace[i].b
             line == [k |-> "log", a |-> "sending", b |-> "Sending: " \o msg]
             act == [k |-> IF last.trace[i].a = "CONNECTING" THEN "push" ELSE "send",
                     a |-> "", b |-> msg]
         IN /\ j # 0
            /\ inside = IF onLog = None THEN <<act>> ELSE <<line, act>>
  /\ Cardinality({i \in DOMAIN last.trace :
                    last.trace[i].k = "log" /\ last.trace[i].a = "sending"})
       = IF onLog = None THEN 0 ELSE Len(Select(last.trace, "call"))

\* an opening that flushes a buffered message after its sink has sent one
C16_Witness ==
  /\ last.op = "open"
  /\ onLog = "sinkSend"
  /\ Len(Select(last.trace, "call")) = 1
  /\ Len(Select(last.trace, "send")) = 2
  /\ preOpenMessages = <<>>

-----------------------------------------------------------------------------
(* C17: with a log sink set, an inbound frame gives the sink exactly one   *)
(* line about the frame, of the kind the frame calls for: "Non-JSON        *)
(* message received" when JSON.parse throws, "Invalid message received"    *)
(* when the parsed value or its event is falsy, "Event <event> received"   *)
(* otherwise, and that last line comes before any handler is invoked and   *)
(* comes whether or not a handler is registered.                           *)

FrameLines ==
  SelectSeq(last.trace, LAMBDA ev : ev.k = "log" /\ ev.a \in {"nonjson", "invalid", "event"})

FrameKind(raw) ==
  LET p == JSONParse(raw)
  IN IF ~p.ok THEN "nonjson"
     ELSE IF ~Truthy(p.val) \/ ~Truthy(p.val.event) THEN "invalid"
     ELSE "event"

C17_OneLinePerFrame ==
  (last.op = "message" /\ onLog # None) =>
     /\ Len(FrameLines) = 1
     /\ FrameLines[1].a = FrameKind(last.a)
     /\ \A i \in DOMAIN last.trace :
          last.trace[i].k \in {"handler", "builtin"} =>
            \E j \in 1..(i - 1) : last.trace[j] = FrameLines[1]

-----------------------------------------------------------------------------
(* C18: a frame whose event is truthy and not a string is dispatched under *)
(* the string form of the event: when a handler is registered under that   *)
(* string it is invoked once with the frame's data and nothing else is,    *)
(* and when none is registered under it no handler is invoked.             *)

CoercedKey == ToStringJS(CoercedEventOf(last.a))

C18_CoercedEvent ==
  (last.op = "message" /\ last.a \in CoercedFrames) =>
     LET h == IF CoercedKey \in RegistryNames THEN registered[CoercedKey] ELSE None
     IN IF h \in Handlers
        THEN Invoked = <<Invocation(h, JSONText(JStr("blah")))>>
        ELSE Invoked = <<>>

-----------------------------------------------------------------------------
(* What the registry ev holds for a name: the handler a frame for that     *)
(* name is dispatched to, or None.                                         *)

HandlerOf(ev, name) ==
  IF GetProperty(ev, name).kind = "handler" THEN GetProperty(ev, name).id ELSE None

(* C19: addEventHandler(E, h) never throws, makes h the handler of E and   *)
(* changes nothing else: the handlers of the other names, preOpenMessages, *)
(* the log sink and the transport are what they were, the sink gets no     *)
(* line and ws.send is not called, whatever the readyState.                *)

C19_AddFrame ==
  [][last'.op = "addEventHandler" =>
       /\ ~last'.threw
       /\ last'.trace = <<>>
       /\ HandlerOf(events', last'.a) = last'.b
       /\ \A e \in RegistryNames \ {last'.a} : HandlerOf(events', e) = HandlerOf(events, e)
       /\ UNCHANGED <<preOpenMessages, onLog, readyState, wsSent>>
    ]_vars

(* C20: removeEventHandler(E) never throws; when E has no handler it       *)
(* leaves the registry, preOpenMessages and the log sink as they were;     *)
(* when E has one it leaves E without a handler and the handlers of the    *)
(* other names, preOpenMessages and the log sink as they were.             *)

C20_RemoveFrame ==
  [][last'.op = "removeEventHandler" =>
       /\ ~last'.threw
       /\ HandlerOf(events, last'.a) = None => events' = events
       /\ HandlerOf(events', last'.a) = None
       /\ \A e \in RegistryNames \ {last'.a} : HandlerOf(events', e) = HandlerOf(events, e)
       /\ UNCHANGED <<preOpenMessages, onLog>>
    ]_vars

=============================================================================
